---- MODULE Spec2Model ----
(***************************************************************************)
(* Model of the AWIS client of whistlebee/awis-py.  The repository holds   *)
(* two implementations of the same class AWIS:                             *)
(*   "pool" : src/awis/awis.py  (requests + multiprocessing ThreadPool)    *)
(*   "greq" : src/awis.py       (grequests)                                *)
(* The variable impl says which of the two the client was built from.      *)
(*                                                                         *)
(* Dates are day numbers (days since 1970-01-01); a date string YYYYMMDD   *)
(* is the integer y*10000 + m*100 + d, so that string order of the fixed   *)
(* width strings is integer order.  The UTC clock is a number of seconds.  *)
(***************************************************************************)
EXTENDS Integers, Sequences, FiniteSets, TLC

\* ------------------------------------------------------------- bounds ---
\* search_range is drawn from -1 .. MaxRange
MaxRange == 62
\* number of seconds the clock may advance during a run
MaxTicks == 1
\* largest number of names in a response_groups collection
MaxGroups == 2

\* ---------------------------------------------------------- constants ---
MAX_SEARCH_RANGE == 31
POOL_SIZE == 8
SecondsPerDay == 24 * 60 * 60

\* start_date = None; no date string is 0
None == 0
SERVICE_NAME == "awis"
SERVICE_URI == "/api"
\* host names are sequences of labels
SERVICE_HOST == <<"awis", "amazonaws", "com">>

VALID_RESPONSE_GROUPS ==
    {"RelatedLinks", "Categories", "Rank", "RankByCountry", "UsageStats",
     "AdultContent", "Speed", "Language", "OwnedDomains", "LinksInCount",
     "SiteData"}

\* ------------------------------------------------------------- inputs ---
Impls == {"pool", "greq"}
Regions == {"us-west-1", "eu-west-1"}
SearchRanges == (0 - 1) .. MaxRange
\* explicit start dates, as days before BaseDay
StartBacks == {31}
GroupNames == VALID_RESPONSE_GROUPS \cup {"Bogus"}
GroupInputs == {g \in SUBSET GroupNames : Cardinality(g) <= MaxGroups}

\* ----------------------------------------------------------- calendar ---
\* datetime.date -> (year, month, day), proleptic Gregorian calendar
CivilFromDays(n) ==
    LET z   == n + 719468
        era == z \div 146097
        doe == z - era * 146097
        yoe == (doe - doe \div 1460 + doe \div 36524 - doe \div 146096) \div 365
        doy == doe - (365 * yoe + yoe \div 4 - yoe \div 100)
        mp  == (5 * doy + 2) \div 153
        d   == doy - (153 * mp + 2) \div 5 + 1
        m   == IF mp < 10 THEN mp + 3 ELSE mp - 9
        y   == yoe + era * 400 + (IF m <= 2 THEN 1 ELSE 0)
    IN  [y |-> y, m |-> m, d |-> d]

\* (year, month, day) -> datetime.date
DaysFromCivil(y0, m, d) ==
    LET y   == IF m <= 2 THEN y0 - 1 ELSE y0
        era == y \div 400
        yoe == y - era * 400
        doy == (153 * (IF m > 2 THEN m - 3 ELSE m + 9) + 2) \div 5 + d - 1
        doe == yoe * 365 + yoe \div 4 - yoe \div 100 + doy
    IN  era * 146097 + doe - 719468

\* date.strftime(DATE_STAMP_FORMAT), DATE_STAMP_FORMAT = '%Y%m%d'
strftime(day) ==
    LET c == CivilFromDays(day) IN (c.y * 10000) + (c.m * 100) + c.d

\* datetime.datetime.strptime(s, DATE_STAMP_FORMAT).date()
strptime(s) ==
    DaysFromCivil(s \div 10000, ((s \div 100) % 100), (s % 100))

\* now.strftime('%H%M%S') of a clock value
TimeOfDay(t) ==
    LET s == t % SecondsPerDay
    IN  (s \div 3600) * 10000 + ((s \div 60) % 60) * 100 + (s % 60)

\* now.strftime('%Y%m%dT%H%M%SZ'): <<YYYYMMDD, HHMMSS>>
FormatAmz(t) == <<strftime(t \div SecondsPerDay), TimeOfDay(t)>>

\* the clock starts one second before the midnight that ends 2020-02-29
BaseDay == DaysFromCivil(2020, 2, 29)
NowStart == (BaseDay + 1) * SecondsPerDay - 1

StartDates == {None} \cup {strftime(BaseDay - k) : k \in StartBacks}

\* -------------------------------------------------------------- state ---
VARIABLES impl, region, now, pc, call, date, queries, tasks, completion,
          responses, error, output

vars == <<impl, region, now, pc, call, date, queries, tasks, completion,
          responses, error, output>>

\* datetime.date.today()
Today == now \div SecondsPerDay

NoCall == [op |-> "none"]

\* --------------------------------------------------- History Planner ---
\* a planner that always adds a request for the remainder
NumRequestsPlusOne(search_range) ==
    search_range \div MAX_SEARCH_RANGE + 1

\* divmod(search_range, MAX_SEARCH_RANGE); num_requests
NumRequests(search_range) ==
    LET quotient  == search_range \div MAX_SEARCH_RANGE
        remainder == search_range % MAX_SEARCH_RANGE
    IN  quotient + (IF remainder < 1 THEN remainder ELSE 1)

\* instance_search_range of loop iteration i (0-based)
InstanceSearchRange(i, search_range) ==
    LET remainder == search_range % MAX_SEARCH_RANGE
    IN  IF i # NumRequests(search_range) - 1
        THEN MAX_SEARCH_RANGE ELSE remainder

\* a loop that never advances date
DateAtNoAdvance(i, start, search_range) == start

\* the value of the loop variable date at the start of iteration i
RECURSIVE DateAt(_, _, _)
DateAt(i, start, search_range) ==
    IF i = 0 THEN start
    ELSE DateAt(i - 1, start, search_range)
         + InstanceSearchRange(i - 1, search_range)

\* the list of canonical queries the loop builds
PlanQueries(start, search_range) ==
    [k \in 1 .. NumRequests(search_range) |->
        [Action |-> "TrafficHistory",
         Range  |-> InstanceSearchRange(k - 1, search_range),
         Start  |-> strftime(DateAt(k - 1, start, search_range))]]

\* ------------------------------------------------------------ service ---
\* The remote service answers a TrafficHistory query with one Data element
\* per day of the query's window, in ascending date order.
ServiceData(q) ==
    [k \in 1 .. q.Range |-> [Date |-> strftime(strptime(q.Start) + (k - 1))]]

\* the body of the response to query q
ServiceContent(q) ==
    IF q.Action = "TrafficHistory" THEN ServiceData(q)
    ELSE <<[UrlInfo |-> q.ResponseGroup]>>

\* -------------------------------------------------------------- Init ---
SERVICE_REGION == "us-west-1"

Init ==
    /\ impl \in Impls
    /\ region \in Regions
    /\ (impl = "greq" => region = SERVICE_REGION)
    /\ now = NowStart
    /\ pc = "idle"
    /\ call = NoCall
    /\ date = 0
    /\ queries = <<>>
    /\ tasks = <<>>
    /\ completion = <<>>
    /\ responses = <<>>
    /\ error = "none"
    /\ output = <<>>

\* the UTC clock advances by one second
Tick ==
    /\ now < NowStart + MaxTicks
    /\ now' = now + 1
    /\ UNCHANGED <<impl, region, pc, call, date, queries, tasks, completion,
                   responses, error, output>>

\* ----------------------------------------------------- traffic_history ---
SearchRangeErrorName == IF impl = "pool" THEN "ValueError" ELSE "SearchRangeError"

Pending(n) == [i \in 1 .. n |-> [st |-> "pending"]]

\* a window check that lets a window ending today through
WindowPastTodayStrict(start, search_range, today) == start + search_range > today

\* the window check: date + timedelta(days=search_range) >= date.today()
WindowPastToday(start, search_range, today) == start + search_range >= today

\* traffic_history up to the computation of the effective start date
traffic_history(search_range, start_date, search_reverse) ==
    /\ pc = "idle"
    /\ call' = [op |-> "traffic_history", search_range |-> search_range,
                start_date |-> start_date, search_reverse |-> search_reverse,
                today |-> None]
    /\ IF search_range < 1
       THEN /\ error' = SearchRangeErrorName
            /\ pc' = "done"
            /\ date' = date
       ELSE /\ date' = (IF start_date = None
                        THEN Today - search_range
                        ELSE strptime(start_date))
                       - (IF search_reverse THEN search_range ELSE 0)
            /\ pc' = "validate"
            /\ error' = error
    /\ UNCHANGED <<impl, region, now, queries, tasks, completion, responses,
                   output>>

\* traffic_history from the window check to the hand-over of the planned
\* queries: to bulk_request's pool (pool), to the request loop (greq)
traffic_history_plan ==
    /\ pc = "validate"
    /\ call' = [call EXCEPT !.today = Today]
    /\ IF WindowPastToday(date, call.search_range, Today)
       THEN /\ error' = SearchRangeErrorName
            /\ pc' = "done"
            /\ UNCHANGED <<queries, tasks>>
       ELSE /\ queries' = PlanQueries(date, call.search_range)
            /\ tasks' = Pending(Len(queries'))
            /\ pc' = IF impl = "pool" THEN "run" ELSE "build"
            /\ error' = error
    /\ UNCHANGED <<impl, region, now, date, completion, responses, output>>

\* ------------------------------------------------------ Request Builder ---
ALGORITHM == "AWS4-HMAC-SHA256"

\* self.SERVICE_ENDPOINT: the host named in the canonical headers
SERVICE_ENDPOINT(r) == <<"awis", r, "amazonaws", "com">>

\* self.AWS_BASE_URL: the URL the GET is issued to, without the query
AWS_BASE_URL(r) == [scheme |-> "https", host |-> SERVICE_HOST, path |-> SERVICE_URI]

\* amz_date(): a read of the clock
amz_date == FormatAmz(now)

\* date_stamp: another read of the clock
date_stamp == strftime(now \div SecondsPerDay)

\* the request create_request assembles from amz, ds and the canonical query
BuildRequest(amz, ds, query) ==
    LET canonical_headers == [host |-> SERVICE_ENDPOINT(region), x_amz_date |-> amz]
        credential_scope  == <<ds, region, SERVICE_NAME, "aws4_request">>
        canonical_request == <<"GET", SERVICE_URI, query, canonical_headers>>
        string_to_sign    == <<ALGORITHM, amz, credential_scope, canonical_request>>
        signing_key       == <<ds, region, SERVICE_NAME>>
    IN  [uri               |-> [base |-> AWS_BASE_URL(region), query |-> query],
         x_amz_date        |-> amz,
         canonical_headers |-> canonical_headers,
         credential_scope  |-> credential_scope,
         string_to_sign    |-> string_to_sign,
         signing_key       |-> signing_key]

Running == {i \in DOMAIN tasks : tasks[i].st \in {"amz", "built"}}
Finished == {i \in DOMAIN tasks : tasks[i].st \in {"ok", "failed"}}

\* the request of task i, once create_request has read amz and ds
Request(i) == BuildRequest(tasks[i].amz, tasks[i].ds, queries[i])

\* may task i enter create_request now?  pool: a free worker thread takes
\* it; greq: the loop of traffic_history builds the requests one by one
MayStart(i) ==
    /\ tasks[i].st = "pending"
    /\ IF impl = "pool"
       THEN pc = "run" /\ Cardinality(Running) < POOL_SIZE
       ELSE pc = "build" /\ \A j \in 1 .. (i - 1) : tasks[j].st = "built"

\* create_request, first clock read: amz = self.amz_date()
create_request_amz(i) ==
    /\ i \in DOMAIN tasks
    /\ MayStart(i)
    /\ tasks' = [tasks EXCEPT ![i] = [st |-> "amz", amz |-> amz_date]]
    /\ UNCHANGED <<impl, region, now, pc, call, date, queries, completion,
                   responses, error, output>>

\* create_request, second clock read ds = self.date_stamp, and the
\* assembly of the signed request; greq: after the last request is built
\* the loop ends and grequests.map starts
create_request_ds(i) ==
    /\ i \in DOMAIN tasks
    /\ tasks[i].st = "amz"
    /\ tasks' = [tasks EXCEPT ![i] =
                    [st |-> "built", amz |-> tasks[i].amz, ds |-> date_stamp]]
    /\ pc' = IF impl = "greq" /\ i = Len(tasks) THEN "run" ELSE pc
    /\ UNCHANGED <<impl, region, now, call, date, queries, completion,
                   responses, error, output>>

\* the GET of request i: it answers, or it fails at the transport level
Get(i, ok) ==
    /\ i \in DOMAIN tasks
    /\ tasks[i].st = "built"
    /\ pc \in {"run", "terminating"}
    /\ tasks' = [tasks EXCEPT ![i].st = IF ok THEN "ok" ELSE "failed"]
    /\ completion' = Append(completion, i)
    /\ UNCHANGED <<impl, region, now, pc, call, date, queries, responses,
                   error, output>>

\* ------------------------------------------------------ Response Parser ---
\* the response object of request i
Response(i) == [of |-> i]

\* r.content: the body the service sent in answer to the request of r
Content(r) == ServiceContent(Request(r.of).uri.query)

Range(f) == {f[k] : k \in DOMAIN f}

\* pool: parse_traffic_history returns the list of the records of the Data
\* elements in document order (a record is modelled by its date)
parse_traffic_history_list(content) ==
    [k \in 1 .. Len(content) |-> content[k].Date]

\* d[key] = value on a dict kept as the sequence of its keys in insertion
\* order: a key already present keeps its place
DictSet(d, key) == IF key \in Range(d) THEN d ELSE Append(d, key)

\* output.update(d)
RECURSIVE DictUpdate(_, _)
DictUpdate(out, d) ==
    IF d = <<>> THEN out
    ELSE DictUpdate(DictSet(out, Head(d)), Tail(d))

\* greq: parse_traffic_history returns a dict keyed by date
parse_traffic_history_dict(content) ==
    DictUpdate(<<>>, parse_traffic_history_list(content))

\* pool: list(itertools.chain.from_iterable(parse(r.content) for r in rs))
RECURSIVE ChainParsed(_)
ChainParsed(rs) ==
    IF rs = <<>> THEN <<>>
    ELSE parse_traffic_history_list(Content(Head(rs))) \o ChainParsed(Tail(rs))

\* greq: output = {}; for d in parsed_responses: output.update(d)
RECURSIVE UpdateParsed(_, _)
UpdateParsed(out, rs) ==
    IF rs = <<>> THEN out
    ELSE UpdateParsed(DictUpdate(out, parse_traffic_history_dict(Content(Head(rs)))),
                      Tail(rs))

\* what the call returns from the collected responses
Result(rs) ==
    IF call.op = "url_info" THEN Content(rs[1])
    ELSE IF impl = "pool" THEN ChainParsed(rs) ELSE UpdateParsed(<<>>, rs)

\* ----------------------------------------------------------- Dispatcher ---
\* results taken in the order the requests finished
CollectIndexArrival(k, done) == IF k <= Len(done) THEN done[k] ELSE k

\* the request whose result is placed k-th in the returned list:
\* [p.get() for p in async_requests] and grequests.map both walk the
\* requests in submission order
CollectIndex(k, done) == k

\* pool.terminate() on leaving the with block: tasks no worker has taken
\* are discarded
Terminate(ts) ==
    [i \in DOMAIN ts |-> IF ts[i].st = "pending" THEN [st |-> "dropped"] ELSE ts[i]]

\* pool: one p.get() of bulk_request; the last one is followed by the
\* parse and merge of traffic_history
bulk_request_get ==
    /\ impl = "pool"
    /\ pc = "run"
    /\ Len(responses) < Len(tasks)
    /\ LET k == Len(responses) + 1
           i == CollectIndex(k, completion)
       IN  /\ tasks[i].st \in {"ok", "failed"}
           /\ IF tasks[i].st = "ok"
              THEN /\ responses' = Append(responses, Response(i))
                   /\ IF k = Len(tasks)
                      THEN output' = Result(responses') /\ pc' = "done"
                      ELSE UNCHANGED <<output, pc>>
                   /\ UNCHANGED <<tasks, error>>
              ELSE /\ error' = "TransportError"
                   /\ tasks' = Terminate(tasks)
                   /\ pc' = "terminating"
                   /\ UNCHANGED <<responses, output>>
    /\ UNCHANGED <<impl, region, now, call, date, queries, completion>>

\* pool: terminate() has joined the worker threads; the error leaves
\* bulk_request and traffic_history
pool_terminated ==
    /\ pc = "terminating"
    /\ Running = {}
    /\ pc' = "done"
    /\ UNCHANGED <<impl, region, now, call, date, queries, tasks, completion,
                   responses, error, output>>

\* greq: grequests.map returns once every request has finished; a failed
\* request makes it call exception_handler(request, exception), and
\* exception_handler takes no argument
grequests_map ==
    /\ impl = "greq"
    /\ pc = "run"
    /\ Finished = DOMAIN tasks
    /\ IF \E i \in DOMAIN tasks : tasks[i].st = "failed"
       THEN /\ error' = "TypeError"
            /\ UNCHANGED <<responses, output>>
       ELSE /\ responses' = [k \in DOMAIN tasks |-> Response(CollectIndex(k, completion))]
            /\ output' = Result(responses')
            /\ error' = error
    /\ pc' = "done"
    /\ UNCHANGED <<impl, region, now, call, date, queries, tasks, completion>>

\* ------------------------------------------------------------- url_info ---
\* the attributes __init__ sets on the instance
InstanceAttributes ==
    IF impl = "pool"
    THEN {"access_id", "secret_access_key", "SERVICE_REGION", "SERVICE_ENDPOINT",
          "AWS_BASE_URL"}
    ELSE {"access_id", "secret_access_key", "valid_response_groups"}

url_info(response_groups) ==
    /\ pc = "idle"
    /\ call' = [op |-> "url_info", response_groups |-> response_groups]
    /\ IF "valid_response_groups" \notin InstanceAttributes
       THEN /\ error' = "AttributeError"
            /\ pc' = "done"
            /\ UNCHANGED <<queries, tasks>>
       ELSE IF ~ (response_groups \subseteq VALID_RESPONSE_GROUPS)
       THEN /\ error' = "NameError"
            /\ pc' = "done"
            /\ UNCHANGED <<queries, tasks>>
       ELSE /\ queries' = <<[Action |-> "urlInfo", ResponseGroup |-> response_groups]>>
            /\ tasks' = Pending(1)
            /\ pc' = "build"
            /\ error' = error
    /\ UNCHANGED <<impl, region, now, date, completion, responses, output>>

\* the call has returned or raised; the client is ready for the next call
Return ==
    /\ pc = "done"
    /\ pc' = "idle"
    /\ call' = NoCall
    /\ date' = 0
    /\ queries' = <<>>
    /\ tasks' = <<>>
    /\ completion' = <<>>
    /\ responses' = <<>>
    /\ error' = "none"
    /\ output' = <<>>
    /\ UNCHANGED <<impl, region, now>>

\* ------------------------------------------------------- specification ---
Next ==
    \/ Tick
    \/ \E r \in SearchRanges, s \in StartDates, b \in BOOLEAN : traffic_history(r, s, b)
    \/ traffic_history_plan
    \/ \E g \in GroupInputs : url_info(g)
    \/ \E i \in DOMAIN tasks : create_request_amz(i)
    \/ \E i \in DOMAIN tasks : create_request_ds(i)
    \/ \E i \in DOMAIN tasks, ok \in BOOLEAN : Get(i, ok)
    \/ bulk_request_get
    \/ pool_terminated
    \/ grequests_map
    \/ Return

Spec == Init /\ [][Next]_vars

\* ------------------------------------------------------------ properties ---
\* the current call is a traffic_history call that passed validation
Planned == call.op = "traffic_history" /\ queries # <<>>

RECURSIVE SumRanges(_)
SumRanges(qs) == IF qs = <<>> THEN 0 ELSE Head(qs).Range + SumRanges(Tail(qs))

Ceil(a, b) == (a + b - 1) \div b

\* C1: for every validated search_range >= 1 the planned sub-requests have
\* Range 31 but for the last, whose Range is search_range mod 31, or 31 when
\* that remainder is zero; no planned sub-request has Range 0.
C1_LastRangeRemainderOrFull ==
    Planned =>
        LET n == Len(queries)
            remainder == call.search_range % MAX_SEARCH_RANGE
        IN  /\ \A k \in 1 .. (n - 1) : queries[k].Range = MAX_SEARCH_RANGE
            /\ queries[n].Range = IF remainder = 0 THEN MAX_SEARCH_RANGE ELSE remainder
            /\ \A k \in 1 .. n : queries[k].Range # 0

\* C2: for every validated search_range >= 1 the number of planned
\* sub-requests is ceil(search_range / 31), and each has Range at most 31.
C2_NumRequestsIsCeil ==
    (call.op = "traffic_history" /\ pc \notin {"idle", "validate"}
        /\ error # SearchRangeErrorName) =>
        /\ Len(queries) = Ceil(call.search_range, MAX_SEARCH_RANGE)
        /\ Len(tasks) = Len(queries)
        /\ \A k \in DOMAIN queries : queries[k].Range <= MAX_SEARCH_RANGE

\* C2 witness: a call of 32 days is planned as two sub-requests
C2_Witness ==
    Planned /\ call.search_range = MAX_SEARCH_RANGE + 1 /\ Len(queries) = 2

\* C3: the first sub-request starts at the effective start date, each later
\* one starts at the previous Start plus the previous Range, and the Ranges
\* sum to search_range: the windows cover the search_range days from the
\* effective start without gap or overlap.
C3_WindowsCoverRange ==
    Planned =>
        /\ queries[1].Start = strftime(date)
        /\ \A k \in 1 .. (Len(queries) - 1) :
              strptime(queries[k + 1].Start) = strptime(queries[k].Start) + queries[k].Range
        /\ SumRanges(queries) = call.search_range

C5_ResponseGroupsValidated ==
    (call.op = "url_info" /\ pc # "idle") =>
        IF call.response_groups \subseteq VALID_RESPONSE_GROUPS
        THEN error \notin {"NameError", "AttributeError"} /\ Len(tasks) = 1
        ELSE error = "NameError" /\ pc = "done" /\ tasks = <<>>

\* C6: a batch returns the responses in the order the sub-queries were
\* submitted, whatever the order the sub-requests finished in: the i-th
\* response returned is the response to the i-th query.
C6_ResponsesInSubmissionOrder ==
    \A k \in DOMAIN responses :
        /\ responses[k].of = k
        /\ Request(responses[k].of).uri.query = queries[k]

\* C6 witness: a batch whose second request finished first has returned
C6_Witness ==
    /\ pc = "done" /\ error = "none" /\ Len(responses) >= 2
    /\ completion[1] = 2

\* C7: a sub-request failing at the transport level does not abort its
\* siblings: every other sub-request is issued and finishes, and the
\* responses of the successful ones are collected and parsed; the call does
\* not end with the error of the failed request.
C7_FailureIsolated ==
    (call.op = "traffic_history" /\ pc = "done" /\ Len(tasks) >= 2
        /\ \E i \in DOMAIN tasks : tasks[i].st = "failed") =>
        /\ \A j \in DOMAIN tasks : tasks[j].st \in {"ok", "failed"}
        /\ error # "TransportError"
        /\ \A j \in DOMAIN tasks : tasks[j].st = "ok" =>
              /\ \E k \in DOMAIN responses : responses[k].of = j
              /\ \A e \in Range(ServiceData(queries[j])) : e.Date \in Range(output)

\* the dates the service returned for the planned queries
ReturnedDates ==
    UNION {{e.Date : e \in Range(ServiceData(queries[k]))} : k \in DOMAIN queries}

\* C8: when every response holds one record per day of its window in
\* ascending order, the merged result of traffic_history holds the records
\* of all sub-queries in ascending date order, no date twice.
C8_MergedAscendingNoDuplicates ==
    (call.op = "traffic_history" /\ pc = "done" /\ error = "none") =>
        /\ \A a, b \in DOMAIN output : a < b => output[a] < output[b]
        /\ Range(output) = ReturnedDates

\* C8 witness: a call of two sub-requests has returned more than 31 days
C8_Witness ==
    /\ call.op = "traffic_history" /\ pc = "done" /\ error = "none"
    /\ Len(queries) = 2 /\ Len(output) > MAX_SEARCH_RANGE

\* the requests create_request has assembled
Built == {i \in DOMAIN tasks : tasks[i].st \in {"built", "ok", "failed"}}

\* C9: every request goes to host awis.<region>.amazonaws.com at path /api:
\* the host of the URL of the GET is the host named in the signed canonical
\* host header, for every region.
C9_UrlHostIsSignedHost ==
    \A i \in Built :
        /\ Request(i).uri.base.host = <<"awis", region, "amazonaws", "com">>
        /\ Request(i).uri.base.host = Request(i).canonical_headers.host
        /\ Request(i).uri.base.path = "/api"

\* C10: in every request create_request builds, the date stamp of the
\* credential scope and of the signing key is the date part of the amz_date
\* of the X-Amz-Date header and the string to sign, also when the UTC clock
\* passes midnight during the call.
C10_DateStampMatchesAmzDate ==
    \A i \in Built :
        /\ Request(i).credential_scope[1] = Request(i).x_amz_date[1]
        /\ Request(i).signing_key[1] = Request(i).string_to_sign[2][1]

\* C11: for every search_range >= 1, traffic_history called without a
\* start_date and with search_reverse false (start defaults to today -
\* search_range days) passes the window check and plans at least one
\* sub-request; it does not end with the cannot-search-past-today error.
C11_DefaultStartAccepted ==
    (call.op = "traffic_history" /\ pc \notin {"idle", "validate"}
        /\ call.search_range >= 1 /\ call.start_date = None
        /\ ~ call.search_reverse) =>
        /\ error # SearchRangeErrorName
        /\ Len(queries) >= 1

====
